---- MODULE Spec2Model ----
(***************************************************************************)
(* Model of the Japanese OCR annotation pipeline:                          *)
(*   workflow/graph.py            JapaneseTextWorkflow (ocr -> nlp -> llm  *)
(*                                -> visualize, process, _format_output)   *)
(*   agents/ocr_agent.py          OCRAgent.extract_text                    *)
(*   agents/nlp_agent.py          NLPAgent.tokenize                        *)
(*   agents/llm_agent.py          LLMAgent.analyze                         *)
(*   agents/visualization_agent.py VisualizationAgent.annotate             *)
(*                                                                         *)
(* Text is a sequence of Unicode code points, so that the ideograph test   *)
(* is the range test of the source and len() is Len().                     *)
(***************************************************************************)
EXTENDS Integers, Sequences, FiniteSets, TLC

VARIABLES pc, state, result, trail, heap, kksRaised, call, faults, http

vars == <<pc, state, result, trail, heap, kksRaised, call, faults, http>>

\* pc       where process stands: the node to run next, "format", "done"
\* state    the WorkflowState record the nodes pass on
\* result   what process returns (<< >> until it returns)
\* trail    the nodes entered so far, in order
\* heap     the image buffers; a reference is an index, 0 is None
\* faults   the collaborator calls that failed during the request
\* http     the upload and the endpoint's answer to it

----------------------------------------------------------------------------
(* Bounds of the model. *)

\* Reconciler harness: number of OCR rows and of tokens.
MaxFrags == 3

MaxTokens == 2

\* Pipeline: number of OCR rows and of tokens of one request.
MaxRows == 1

MaxWords == 1

\* Layout harness: number of annotations handed to annotate.
MaxAnns == 3

----------------------------------------------------------------------------
(* Text. *)

\* The page the inputs are cut from: U+65E5 U+672C U+306E ("nihon no").
Page == <<26085, 26412, 12398>>

\* Every non-empty contiguous piece of the page.
Texts == {SubSeq(Page, i, j) : i \in 1..Len(Page), j \in 1..Len(Page)} \ {<< >>}

\* Python: any('一' <= char <= '鿿' for char in text)
HasKanji(text) == \E i \in 1..Len(text) : 19968 <= text[i] /\ text[i] <= 40959

\* Python: a in b, for strings.
IsSubstring(a, b) ==
    \E i \in 0..(Len(b) - Len(a)) : SubSeq(b, i + 1, i + Len(a)) = a

\* pykakasi's word table: the readings of the ideograph words it knows.
KakasiDict ==
    (<<26085, 26412>> :> <<12395, 12411, 12435>>) @@
    (<<26085>> :> <<12402>>) @@
    (<<26412>> :> <<12411, 12435>>)

\* The longest prefix of text that is a word of the table (0: none).
LongestWord(text) ==
    LET ks == {k \in 1..Len(text) : SubSeq(text, 1, k) \in DOMAIN KakasiDict}
    IN  IF ks = {} THEN 0 ELSE CHOOSE k \in ks : \A m \in ks : m <= k

RECURSIVE KksHiraFrom(_)
KksHiraFrom(text) ==
    IF text = << >> THEN << >>
    ELSE LET k == LongestWord(text)
         IN  IF k = 0
             THEN <<text[1]>> \o KksHiraFrom(Tail(text))
             ELSE KakasiDict[SubSeq(text, 1, k)]
                  \o KksHiraFrom(SubSeq(text, k + 1, Len(text)))

\* "".join(item['hira'] for item in kks.convert(text)): longest-match
\* conversion of ideograph words, kana kept as it is.
KksHira(text) == KksHiraFrom(text)

----------------------------------------------------------------------------
(* OCRAgent.extract_text *)

\* Rows of pytesseract's image_to_data: text (stripped), conf, box.
Positions == {<<10, 50>>, <<10, 10>>}

RawRows ==
    {[text |-> t, conf |-> c, left |-> p[1], top |-> p[2], width |-> 24, height |-> 20] :
        t \in Texts \cup {<< >>}, c \in {15, 90}, p \in Positions}

Abs(n) == IF n < 0 THEN -n ELSE n

RECURSIVE ExtractFrom(_, _, _, _, _)
ExtractFrom(rows, i, elements, prev_text, prev_y) ==
    IF i > Len(rows) THEN elements
    ELSE LET row == rows[i]
         IN  IF row.text # << >> /\ row.conf > 20
             THEN IF prev_y # << >> /\ prev_text = <<row.text>>
                     /\ Abs(row.top - prev_y[1]) < 15
                  THEN ExtractFrom(rows, i + 1, elements, prev_text, prev_y)
                  ELSE ExtractFrom(rows, i + 1,
                           Append(elements,
                               [text |-> row.text, x |-> row.left, y |-> row.top,
                                w |-> row.width, h |-> row.height, conf |-> row.conf]),
                           <<row.text>>, <<row.top>>)
             ELSE ExtractFrom(rows, i + 1, elements, prev_text, prev_y)

\* The element list of extract_text; prev_text / prev_y are << >> for None.
ExtractElements(rows) == ExtractFrom(rows, 1, << >>, << >>, << >>)

RECURSIVE JoinTexts(_)
JoinTexts(elements) ==
    IF elements = << >> THEN << >>
    ELSE IF Len(elements) = 1 THEN elements[1].text
    ELSE elements[1].text \o <<32>> \o JoinTexts(Tail(elements))

\* " ".join(elem["text"] for elem in elements)
FullText(elements) == JoinTexts(elements)

----------------------------------------------------------------------------
(* NLPAgent.tokenize *)

\* JMdict: the first two glosses of the first sense with glosses.
JamLookup(word) ==
    IF word = <<26085, 26412>> THEN "Japan"
    ELSE IF word = <<26412>> THEN "book"
    ELSE ""

\* _get_dictionary_meaning: "" without a dictionary or when the lookup raises.
GetDictionaryMeaning(word, lookupOk) == IF lookupOk THEN JamLookup(word) ELSE ""

\* One Token of tokenize (pos, katakana and romaji are read by nothing).
MakeToken(word, lookupOk) ==
    [text |-> word,
     hiragana |-> KksHira(word),
     is_kanji |-> HasKanji(word),
     meaning |-> IF HasKanji(word) THEN GetDictionaryMeaning(word, lookupOk) ELSE ""]

TokenValues == {MakeToken(w, ok) : w \in Texts, ok \in BOOLEAN}

SeqsUpTo(S, n) == UNION {[1..k -> S] : k \in 0..n}

RECURSIVE VocabularyFrom(_, _, _)
VocabularyFrom(tokens, i, vocabulary) ==
    IF i > Len(tokens) THEN vocabulary
    ELSE LET token == tokens[i]
         IN  IF token.is_kanji /\ token.meaning # ""
             THEN VocabularyFrom(tokens, i + 1,
                      [k \in DOMAIN vocabulary \cup {token.text} |->
                          IF k = token.text THEN token.meaning ELSE vocabulary[k]])
             ELSE VocabularyFrom(tokens, i + 1, vocabulary)

\* _nlp_node: vocabulary[token.text] = token.meaning for ideograph tokens
\* with a meaning.
BuildVocabulary(tokens) == VocabularyFrom(tokens, 1, << >>)

----------------------------------------------------------------------------
(* JapaneseTextWorkflow._visualize_node: the reconciliation loop *)

RECURSIVE MatchFrom(_, _, _, _, _)
MatchFrom(tokens, i, elem_text, best_match, best_match_length) ==
    IF i > Len(tokens) THEN best_match
    ELSE LET token == tokens[i]
         IN  IF ~token.is_kanji
             THEN MatchFrom(tokens, i + 1, elem_text, best_match, best_match_length)
             ELSE IF token.text = elem_text
             THEN i
             ELSE IF IsSubstring(token.text, elem_text)
                     /\ Len(token.text) > best_match_length
             THEN MatchFrom(tokens, i + 1, elem_text, i, Len(token.text))
             ELSE IF IsSubstring(elem_text, token.text)
                     /\ Len(elem_text) > best_match_length
             THEN MatchFrom(tokens, i + 1, elem_text, i, Len(elem_text))
             ELSE MatchFrom(tokens, i + 1, elem_text, best_match, best_match_length)

RECURSIVE MatchNoExactFrom(_, _, _, _, _)
MatchNoExactFrom(tokens, i, elem_text, best_match, best_match_length) ==
    IF i > Len(tokens) THEN best_match
    ELSE LET token == tokens[i]
         IN  IF ~token.is_kanji
             THEN MatchNoExactFrom(tokens, i + 1, elem_text, best_match, best_match_length)
             ELSE IF IsSubstring(token.text, elem_text)
                     /\ Len(token.text) > best_match_length
             THEN MatchNoExactFrom(tokens, i + 1, elem_text, i, Len(token.text))
             ELSE IF IsSubstring(elem_text, token.text)
                     /\ Len(elem_text) > best_match_length
             THEN MatchNoExactFrom(tokens, i + 1, elem_text, i, Len(elem_text))
             ELSE MatchNoExactFrom(tokens, i + 1, elem_text, best_match, best_match_length)

\* Mutant: the token loop without its exact-match branch.
FindBestMatchNoExact(tokens, elem_text) == MatchNoExactFrom(tokens, 1, elem_text, 0, 0)

\* The token loop taking a token contained in the element whenever it meets
\* one, whatever has been found before.
RECURSIVE MatchContainedWinsFrom(_, _, _, _, _)
MatchContainedWinsFrom(tokens, i, elem_text, best_match, best_match_length) ==
    IF i > Len(tokens) THEN best_match
    ELSE LET token == tokens[i]
         IN  IF ~token.is_kanji
             THEN MatchContainedWinsFrom(tokens, i + 1, elem_text, best_match, best_match_length)
             ELSE IF token.text = elem_text
             THEN i
             ELSE IF IsSubstring(token.text, elem_text)
             THEN MatchContainedWinsFrom(tokens, i + 1, elem_text, i, Len(token.text))
             ELSE IF IsSubstring(elem_text, token.text)
                     /\ Len(elem_text) > best_match_length
             THEN MatchContainedWinsFrom(tokens, i + 1, elem_text, i, Len(elem_text))
             ELSE MatchContainedWinsFrom(tokens, i + 1, elem_text, best_match, best_match_length)

FindBestMatchContainedWins(tokens, elem_text) ==
    MatchContainedWinsFrom(tokens, 1, elem_text, 0, 0)

\* The token loop scoring a token that contains the element on the token's
\* own length.
RECURSIVE MatchLongestContainingFrom(_, _, _, _, _)
MatchLongestContainingFrom(tokens, i, elem_text, best_match, best_match_length) ==
    IF i > Len(tokens) THEN best_match
    ELSE LET token == tokens[i]
         IN  IF ~token.is_kanji
             THEN MatchLongestContainingFrom(tokens, i + 1, elem_text, best_match, best_match_length)
             ELSE IF token.text = elem_text
             THEN i
             ELSE IF IsSubstring(token.text, elem_text)
                     /\ Len(token.text) > best_match_length
             THEN MatchLongestContainingFrom(tokens, i + 1, elem_text, i, Len(token.text))
             ELSE IF IsSubstring(elem_text, token.text)
                     /\ Len(token.text) > best_match_length
             THEN MatchLongestContainingFrom(tokens, i + 1, elem_text, i, Len(token.text))
             ELSE MatchLongestContainingFrom(tokens, i + 1, elem_text, best_match, best_match_length)

FindBestMatchLongestContaining(tokens, elem_text) ==
    MatchLongestContainingFrom(tokens, 1, elem_text, 0, 0)

\* The token loop scoring a token contained in the element on the element's
\* length.
RECURSIVE MatchFirstContainedFrom(_, _, _, _, _)
MatchFirstContainedFrom(tokens, i, elem_text, best_match, best_match_length) ==
    IF i > Len(tokens) THEN best_match
    ELSE LET token == tokens[i]
         IN  IF ~token.is_kanji
             THEN MatchFirstContainedFrom(tokens, i + 1, elem_text, best_match, best_match_length)
             ELSE IF token.text = elem_text
             THEN i
             ELSE IF IsSubstring(token.text, elem_text)
                     /\ Len(elem_text) > best_match_length
             THEN MatchFirstContainedFrom(tokens, i + 1, elem_text, i, Len(elem_text))
             ELSE IF IsSubstring(elem_text, token.text)
                     /\ Len(elem_text) > best_match_length
             THEN MatchFirstContainedFrom(tokens, i + 1, elem_text, i, Len(elem_text))
             ELSE MatchFirstContainedFrom(tokens, i + 1, elem_text, best_match, best_match_length)

FindBestMatchFirstContained(tokens, elem_text) ==
    MatchFirstContainedFrom(tokens, 1, elem_text, 0, 0)

\* The token loop without its test of token.is_kanji.
RECURSIVE MatchAnyTokenFrom(_, _, _, _, _)
MatchAnyTokenFrom(tokens, i, elem_text, best_match, best_match_length) ==
    IF i > Len(tokens) THEN best_match
    ELSE LET token == tokens[i]
         IN  IF token.text = elem_text
             THEN i
             ELSE IF IsSubstring(token.text, elem_text)
                     /\ Len(token.text) > best_match_length
             THEN MatchAnyTokenFrom(tokens, i + 1, elem_text, i, Len(token.text))
             ELSE IF IsSubstring(elem_text, token.text)
                     /\ Len(elem_text) > best_match_length
             THEN MatchAnyTokenFrom(tokens, i + 1, elem_text, i, Len(elem_text))
             ELSE MatchAnyTokenFrom(tokens, i + 1, elem_text, best_match, best_match_length)

FindBestMatchAnyToken(tokens, elem_text) ==
    MatchAnyTokenFrom(tokens, 1, elem_text, 0, 0)

\* The token loop of one element: the index of best_match, 0 for None.
FindBestMatch(tokens, elem_text) == MatchFrom(tokens, 1, elem_text, 0, 0)

\* Mutant: the token's own gloss, the vocabulary map not consulted.
MeaningOfTokenOnly(vocabulary, best_match) == best_match.meaning

\* state["vocabulary"].get(best_match.text, best_match.meaning), then
\* meaning if meaning else "".
MeaningOf(vocabulary, best_match) ==
    IF best_match.text \in DOMAIN vocabulary
    THEN vocabulary[best_match.text]
    ELSE best_match.meaning

\* The Annotation appended when a token matched.
MatchedAnnotation(elem, best_match, vocabulary) ==
    [kanji |-> elem.text,
     hiragana |-> best_match.hiragana,
     meaning |-> MeaningOf(vocabulary, best_match),
     x |-> elem.x, y |-> elem.y, w |-> elem.w, h |-> elem.h]

\* Mutant: the raw text in place of its reading.
DirectAnnotationRaw(elem) ==
    [kanji |-> elem.text,
     hiragana |-> elem.text,
     meaning |-> "",
     x |-> elem.x, y |-> elem.y, w |-> elem.w, h |-> elem.h]

\* The Annotation appended from the direct pykakasi reading.
DirectAnnotation(elem) ==
    [kanji |-> elem.text,
     hiragana |-> KksHira(elem.text),
     meaning |-> "",
     x |-> elem.x, y |-> elem.y, w |-> elem.w, h |-> elem.h]

PositionKey(elem) == <<elem.x, elem.y, elem.text>>

\* The direct reading's failure taking the annotations made so far with it.
AnnotateElementLosing(acc, elem, i, tokens, vocabulary, kksFail) ==
    LET m == FindBestMatch(tokens, elem.text)
    IN  IF m # 0
        THEN [acc EXCEPT
                !.annotations = Append(@, MatchedAnnotation(elem, tokens[m], vocabulary)),
                !.seen_positions = @ \cup {PositionKey(elem)}]
        ELSE IF i \in kksFail
        THEN [annotations |-> << >>, seen_positions |-> {},
              raised |-> acc.raised \cup {i}]
        ELSE [acc EXCEPT
                !.annotations = Append(@, DirectAnnotation(elem)),
                !.seen_positions = @ \cup {PositionKey(elem)}]

\* What one element adds once it is neither a repeat nor without ideograph.
AnnotateElement(acc, elem, i, tokens, vocabulary, kksFail) ==
    LET m == FindBestMatch(tokens, elem.text)
    IN  IF m # 0
        THEN [acc EXCEPT
                !.annotations = Append(@, MatchedAnnotation(elem, tokens[m], vocabulary)),
                !.seen_positions = @ \cup {PositionKey(elem)}]
        ELSE IF i \in kksFail
        THEN [acc EXCEPT !.raised = @ \cup {i}]
        ELSE [acc EXCEPT
                !.annotations = Append(@, DirectAnnotation(elem)),
                !.seen_positions = @ \cup {PositionKey(elem)}]

\* Mutant: no check of seen_positions.
ReconcileElementNoSeen(acc, elem, i, tokens, vocabulary, kksFail) ==
    IF ~HasKanji(elem.text) THEN acc
    ELSE AnnotateElement(acc, elem, i, tokens, vocabulary, kksFail)

\* Mutant: no check of has_kanji.
ReconcileElementAnyText(acc, elem, i, tokens, vocabulary, kksFail) ==
    IF PositionKey(elem) \in acc.seen_positions THEN acc
    ELSE AnnotateElement(acc, elem, i, tokens, vocabulary, kksFail)

\* One pass of "for elem in state['ocr_elements']": acc holds annotations,
\* seen_positions and the indices whose direct reading raised; kksFail is
\* the set of element indices at which pykakasi would raise.
ReconcileElement(acc, elem, i, tokens, vocabulary, kksFail) ==
    IF PositionKey(elem) \in acc.seen_positions THEN acc
    ELSE IF ~HasKanji(elem.text) THEN acc
    ELSE AnnotateElement(acc, elem, i, tokens, vocabulary, kksFail)

RECURSIVE ReconcileFrom(_, _, _, _, _, _)
ReconcileFrom(elements, i, tokens, vocabulary, kksFail, acc) ==
    IF i > Len(elements) THEN acc
    ELSE ReconcileFrom(elements, i + 1, tokens, vocabulary, kksFail,
             ReconcileElement(acc, elements[i], i, tokens, vocabulary, kksFail))

\* Lines 103-184: annotations = [], seen_positions = set(), then the loop.
Reconcile(elements, tokens, vocabulary, kksFail) ==
    ReconcileFrom(elements, 1, tokens, vocabulary, kksFail,
        [annotations |-> << >>, seen_positions |-> {}, raised |-> {}])

----------------------------------------------------------------------------
(* VisualizationAgent *)

\* The node's check with the shape test of annotate moved into it.
IsNoneOrInvalid(ref) ==
    ref = 0 \/ Len(heap[ref].shape) # 3 \/ heap[ref].shape[3] # 3

\* An image buffer is [shape, ink]: the numpy shape and what has been drawn
\* on the pixels.  The heap maps buffer ids 1..Len(heap) to buffers; id 0 is
\* None.
IsNone(ref) == ref = 0

RECURSIVE SortedFrom(_)
SortedFrom(S) ==
    IF S = {} THEN << >>
    ELSE LET m == CHOOSE a \in S : \A b \in S : a <= b
         IN  <<m>> \o SortedFrom(S \ {m})

\* sorted(set(...))
Sorted(S) == SortedFrom(S)

RECURSIVE SumSeq(_)
SumSeq(q) == IF q = << >> THEN 0 ELSE q[1] + SumSeq(Tail(q))

\* The average rounded to the nearest integer in place of int().
CalculateLineSpacingRounded(annotations) ==
    IF Len(annotations) < 2 THEN 50
    ELSE LET y_positions == Sorted({annotations[i].y : i \in 1..Len(annotations)})
             spacings == [i \in 1..(Len(y_positions) - 1) |->
                             y_positions[i + 1] - y_positions[i]]
         IN  IF Len(y_positions) < 2 THEN 50
             ELSE IF spacings = << >> THEN 50
             ELSE (2 * SumSeq(spacings) + Len(spacings)) \div (2 * Len(spacings))

\* _calculate_line_spacing; int(sum / len) of non-negative gaps is \div.
CalculateLineSpacing(annotations) ==
    IF Len(annotations) < 2 THEN 50
    ELSE LET y_positions == Sorted({annotations[i].y : i \in 1..Len(annotations)})
             spacings == [i \in 1..(Len(y_positions) - 1) |->
                             y_positions[i + 1] - y_positions[i]]
         IN  IF Len(y_positions) < 2 THEN 50
             ELSE IF spacings = << >> THEN 50
             ELSE SumSeq(spacings) \div Len(spacings)

\* annotate, lines 65-70.
FontSize(line_spacing) ==
    IF line_spacing < 30 THEN 8
    ELSE IF line_spacing < 50 THEN 10
    ELSE 12

\* draw.textbbox((0, 0), text, font): full-width glyphs, one em each.
TextWidth(text, font_size) == Len(text) * font_size

TextHeight(text, font_size) == IF text = << >> THEN 0 ELSE font_size

\* Mutant: the clamp to the top margin taken the wrong way round.
DrawFuriganaClampAll(ann, font_size) ==
    LET furigana_width == TextWidth(ann.hiragana, font_size)
        furigana_height == TextHeight(ann.hiragana, font_size)
        furigana_x == ann.x + ((ann.w - furigana_width) \div 2)
        vertical_padding == 3
        above == ann.y - furigana_height - vertical_padding
        furigana_y == IF above > 20 THEN 20 ELSE above
        padding == 2
    IN  IF ann.w <= 0 \/ ann.h <= 0 THEN << >>
        ELSE <<[kind |-> "furigana",
                text |-> ann.hiragana,
                of |-> ann,
                size |-> font_size,
                x0 |-> furigana_x - padding,
                y0 |-> furigana_y - padding,
                x1 |-> furigana_x + furigana_width + padding,
                y1 |-> furigana_y + furigana_height + padding]>>

\* _draw_furigana: the ink it leaves, << >> for a box it skips; "of" names
\* the annotation the ink belongs to.
DrawFurigana(ann, font_size) ==
    LET furigana_width == TextWidth(ann.hiragana, font_size)
        furigana_height == TextHeight(ann.hiragana, font_size)
        furigana_x == ann.x + ((ann.w - furigana_width) \div 2)
        vertical_padding == 3
        above == ann.y - furigana_height - vertical_padding
        furigana_y == IF above < 20 THEN 20 ELSE above
        padding == 2
    IN  IF ann.w <= 0 \/ ann.h <= 0 THEN << >>
        ELSE <<[kind |-> "furigana",
                text |-> ann.hiragana,
                of |-> ann,
                size |-> font_size,
                x0 |-> furigana_x - padding,
                y0 |-> furigana_y - padding,
                x1 |-> furigana_x + furigana_width + padding,
                y1 |-> furigana_y + furigana_height + padding]>>

\* _add_title with the 12 pt font: "Furigana Readings" is 17 glyphs.
AddTitle(width) ==
    LET title_width == 17 * 12
        title_height == 12
        title_x == (width - title_width) \div 2
        title_y == 3
        padding == 4
    IN  <<[kind |-> "title",
           text |-> << >>,
           of |-> << >>,
           size |-> 12,
           x0 |-> title_x - padding,
           y0 |-> title_y - padding,
           x1 |-> title_x + title_width + padding,
           y1 |-> title_y + title_height + padding]>>

\* The loop left at the first annotation whose drawing raises.
RECURSIVE DrawAllFromBreak(_, _, _, _)
DrawAllFromBreak(annotations, i, font_size, drawFail) ==
    IF i > Len(annotations) \/ i \in drawFail THEN << >>
    ELSE DrawFurigana(annotations[i], font_size)
         \o DrawAllFromBreak(annotations, i + 1, font_size, drawFail)

RECURSIVE DrawAllFrom(_, _, _, _)
DrawAllFrom(annotations, i, font_size, drawFail) ==
    IF i > Len(annotations) THEN << >>
    ELSE (IF i \in drawFail THEN << >> ELSE DrawFurigana(annotations[i], font_size))
         \o DrawAllFrom(annotations, i + 1, font_size, drawFail)

\* "for ann in annotations: try: _draw_furigana ... except: continue";
\* drawFail is the set of indices whose drawing raises.
DrawAll(annotations, font_size, drawFail) ==
    DrawAllFrom(annotations, 1, font_size, drawFail)

\* The validation without its test of the shape.
InvalidImageNoneOnly(h, image) == IsNone(image)

\* Lines 50-54: the ValueError cases.
InvalidImage(h, image) ==
    IsNone(image) \/ Len(h[image].shape) # 3 \/ h[image].shape[3] # 3

\* The try block of annotate: the picture is drawn on pil_image, a buffer of
\* its own (cv2.cvtColor and np.array build new arrays), and the result is
\* a new buffer again.
AnnotatedBuffer(buffer, annotations, drawFail) ==
    [shape |-> buffer.shape,
     ink |-> buffer.ink
             \o DrawAll(annotations, FontSize(CalculateLineSpacing(annotations)), drawFail)
             \o AddTitle(buffer.shape[2])]

\* Mutant: the readings are drawn on the caller's array, which is returned.
AnnotateInPlace(h, image, annotations, wholeFail, drawFail) ==
    IF InvalidImage(h, image)
    THEN [raised |-> TRUE, heap |-> h, ret |-> 0]
    ELSE IF wholeFail
    THEN [raised |-> FALSE, heap |-> Append(h, h[image]), ret |-> Len(h) + 1]
    ELSE [raised |-> FALSE,
          heap |-> [h EXCEPT ![image] = AnnotatedBuffer(h[image], annotations, drawFail)],
          ret |-> image]

\* annotate(image, annotations): [raised, heap, ret].  wholeFail: the try
\* block raises and image.copy() is returned.
Annotate(h, image, annotations, wholeFail, drawFail) ==
    IF InvalidImage(h, image)
    THEN [raised |-> TRUE, heap |-> h, ret |-> 0]
    ELSE IF wholeFail
    THEN [raised |-> FALSE, heap |-> Append(h, h[image]), ret |-> Len(h) + 1]
    ELSE [raised |-> FALSE,
          heap |-> Append(h, AnnotatedBuffer(h[image], annotations, drawFail)),
          ret |-> Len(h) + 1]

----------------------------------------------------------------------------
(* OCRAgent._group_into_lines *)

\* sorted(q, key=...) is stable: keys[i] is the key of q[i], and the first
\* element with the least key comes first.
FirstLeast(keys) ==
    CHOOSE i \in 1..Len(keys) :
        /\ \A j \in 1..Len(keys) : keys[i] <= keys[j]
        /\ \A j \in 1..(i - 1) : keys[j] > keys[i]

Without(q, i) == SubSeq(q, 1, i - 1) \o SubSeq(q, i + 1, Len(q))

RECURSIVE SortedByKey(_, _)
SortedByKey(q, keys) ==
    IF q = << >> THEN << >>
    ELSE LET i == FirstLeast(keys)
         IN  <<q[i]>> \o SortedByKey(Without(q, i), Without(keys, i))

\* key=lambda e: e["x"]
SortByX(q) == SortedByKey(q, [i \in 1..Len(q) |-> q[i].x])

\* key=lambda e: (e["y"], e["x"]); coordinates are below 100000.
SortByYX(q) == SortedByKey(q, [i \in 1..Len(q) |-> q[i].y * 100000 + q[i].x])

RECURSIVE GroupFrom(_, _, _, _, _)
GroupFrom(q, i, lines, current_line, current_y) ==
    IF i > Len(q)
    THEN IF current_line # << >> THEN Append(lines, SortByX(current_line)) ELSE lines
    ELSE IF current_line = << >>
    THEN GroupFrom(q, i + 1, lines, <<q[i]>>, q[i].y)
    ELSE IF Abs(q[i].y - current_y) < 15
    THEN GroupFrom(q, i + 1, lines, Append(current_line, q[i]), current_y)
    ELSE GroupFrom(q, i + 1, Append(lines, SortByX(current_line)), <<q[i]>>, q[i].y)

GroupIntoLines(elements) == GroupFrom(SortByYX(elements), 1, << >>, << >>, 0)

----------------------------------------------------------------------------
(* JapaneseTextWorkflow.process and the four nodes *)

\* initial_state of process.
InitialState ==
    [image_path |-> "upload.png",
     image_array |-> 0,
     ocr_elements |-> << >>,
     ocr_lines |-> << >>,
     full_text |-> << >>,
     tokens |-> << >>,
     vocabulary |-> << >>,
     translation |-> "",
     grammar_patterns |-> << >>,
     sentence_breakdown |-> << >>,
     annotations |-> << >>,
     annotated_image_readings_path |-> "",
     annotated_image_meanings_path |-> "",
     processing_time |-> "",
     error |-> ""]

\* No upload received, nothing answered.
NoResponse == [upload |-> << >>, status |-> 0, content |-> << >>]

NoCall ==
    [image |-> 0, annotations |-> << >>, wholeFail |-> FALSE, drawFail |-> {},
     raised |-> FALSE, ret |-> 0]

\* A failure report that keeps what the record holds so far (partial output).
FailureResultPartial(message) ==
    [success |-> FALSE, error |-> message, timestamp |-> "now",
     extracted_text |-> [full_text |-> state.full_text]]

\* The except branch of process: the structured failure.
FailureResult(message) ==
    [success |-> FALSE, error |-> message, timestamp |-> "now"]

RECURSIVE VocabListFrom(_, _, _, _)
VocabListFrom(annotations, i, vocab_list, seen_kanji) ==
    IF i > Len(annotations) THEN vocab_list
    ELSE LET ann == annotations[i]
         IN  IF ann.kanji \notin seen_kanji /\ ann.meaning # ""
             THEN VocabListFrom(annotations, i + 1,
                      Append(vocab_list,
                          [kanji |-> ann.kanji, hiragana |-> ann.hiragana,
                           meaning |-> ann.meaning]),
                      seen_kanji \cup {ann.kanji})
             ELSE VocabListFrom(annotations, i + 1, vocab_list, seen_kanji)

\* _format_output.
FormatOutput(st) ==
    LET vocab_list == VocabListFrom(st.annotations, 1, << >>, {})
    IN  [success |-> TRUE,
         timestamp |-> "now",
         processing_time |-> st.processing_time,
         extracted_text |->
             [full_text |-> st.full_text,
              character_count |-> Len(st.full_text),
              elements_count |-> Len(st.ocr_elements),
              lines_count |-> Len(st.ocr_lines)],
         vocabulary |-> SubSeq(vocab_list, 1, IF Len(vocab_list) < 100 THEN Len(vocab_list) ELSE 100),
         analysis |->
             [translation |-> st.translation,
              grammar_patterns |-> st.grammar_patterns,
              sentence_breakdown |-> st.sentence_breakdown],
         annotated_image |-> st.annotated_image_readings_path,
         stats |->
             [total_annotations |-> Len(st.annotations),
              vocabulary_words |-> Len(vocab_list),
              grammar_patterns |-> Len(st.grammar_patterns)]]

\* A node raised: graph.invoke propagates it and process returns the failure.
ProcessExcept(message) ==
    /\ result' = FailureResult(message)
    /\ pc' = "done"

Init ==
    /\ pc = "ocr"
    /\ state = InitialState
    /\ result = << >>
    /\ trail = << >>
    /\ heap = << >>
    /\ kksRaised = {}
    /\ http = NoResponse
    /\ call = NoCall
    /\ faults = {}

\* extract_text with its failure caught and replaced by an empty result.
ExtractTextCaught(rows, raises) ==
    IF raises
    THEN [raised |-> FALSE, image |-> << >>, elements |-> << >>,
          lines |-> << >>, full_text |-> << >>]
    ELSE LET elements == ExtractElements(rows)
         IN  [raised |-> FALSE,
              image |-> <<[shape |-> <<120, 200, 3>>, ink |-> << >>]>>,
              elements |-> elements,
              lines |-> GroupIntoLines(elements),
              full_text |-> FullText(elements)]

\* extract_text(image_path): raises (unreadable file, tesseract error) or
\* returns the RGB array with the elements, lines and text.
ExtractText(rows, raises) ==
    IF raises
    THEN [raised |-> TRUE, image |-> << >>, elements |-> << >>,
          lines |-> << >>, full_text |-> << >>]
    ELSE LET elements == ExtractElements(rows)
         IN  [raised |-> FALSE,
              image |-> <<[shape |-> <<120, 200, 3>>, ink |-> << >>]>>,
              elements |-> elements,
              lines |-> GroupIntoLines(elements),
              full_text |-> FullText(elements)]

\* _ocr_node.
OcrNode ==
    /\ pc = "ocr"
    /\ trail' = Append(trail, "ocr")
    /\ UNCHANGED http
    /\ \E rows \in SeqsUpTo(RawRows, MaxRows), raises \in BOOLEAN :
         LET r == ExtractText(rows, raises)
         IN  /\ faults' = IF raises THEN faults \cup {"extract_text"} ELSE faults
             /\ IF r.raised
                THEN /\ ProcessExcept("extract_text raised")
                     /\ UNCHANGED <<state, heap, kksRaised, call>>
                ELSE /\ heap' = heap \o r.image
                     /\ state' = [state EXCEPT
                                    !.image_array = IF r.image = << >> THEN 0 ELSE Len(heap) + 1,
                                    !.ocr_elements = r.elements,
                                    !.ocr_lines = r.lines,
                                    !.full_text = r.full_text]
                     /\ pc' = "nlp"
                     /\ UNCHANGED <<result, kksRaised, call>>

\* tokenize(text): nagisa's word list is the tagger's own (words), every
\* Token is built from its word; raises when the tagger raises.
Tokenize(words, lookupOk, raises) ==
    IF raises THEN [raised |-> TRUE, tokens |-> << >>]
    ELSE [raised |-> FALSE,
          tokens |-> [i \in 1..Len(words) |-> MakeToken(words[i], lookupOk[i])]]

\* _nlp_node storing, with the tokens, the text put together again from the
\* tagger's words.
NlpNodeRewritingText ==
    /\ pc = "nlp"
    /\ trail' = Append(trail, "nlp")
    /\ UNCHANGED http
    /\ \E words \in SeqsUpTo(Texts, MaxWords), raises \in BOOLEAN :
         \E lookupOk \in [1..Len(words) -> BOOLEAN] :
           LET r == Tokenize(words, lookupOk, raises)
           IN  /\ faults' = IF raises THEN faults \cup {"tokenize"} ELSE faults
               /\ IF r.raised
                  THEN /\ ProcessExcept("tokenize raised")
                       /\ UNCHANGED <<state, heap, kksRaised, call>>
                  ELSE /\ state' = [state EXCEPT
                                      !.tokens = r.tokens,
                                      !.vocabulary = BuildVocabulary(r.tokens),
                                      !.full_text = JoinTexts(r.tokens)]
                       /\ pc' = "llm"
                       /\ UNCHANGED <<result, heap, kksRaised, call>>

\* _nlp_node.
NlpNode ==
    /\ pc = "nlp"
    /\ trail' = Append(trail, "nlp")
    /\ UNCHANGED http
    /\ \E words \in SeqsUpTo(Texts, MaxWords), raises \in BOOLEAN :
         \E lookupOk \in [1..Len(words) -> BOOLEAN] :
           LET r == Tokenize(words, lookupOk, raises)
           IN  /\ faults' = IF raises THEN faults \cup {"tokenize"} ELSE faults
               /\ IF r.raised
                  THEN /\ ProcessExcept("tokenize raised")
                       /\ UNCHANGED <<state, heap, kksRaised, call>>
                  ELSE /\ state' = [state EXCEPT
                                      !.tokens = r.tokens,
                                      !.vocabulary = BuildVocabulary(r.tokens)]
                       /\ pc' = "llm"
                       /\ UNCHANGED <<result, heap, kksRaised, call>>

\* What the Groq request can come to: no answer (timeout, HTTP error, bad
\* JSON) or a parsed answer.
Responses ==
    {[failed |-> TRUE, translation |-> "", grammar_patterns |-> << >>],
     [failed |-> FALSE, translation |-> "a book of Japan",
      grammar_patterns |-> <<"no: possessive particle">>],
     [failed |-> FALSE, translation |-> "a book of Japan",
      grammar_patterns |-> << >>]}

\* analyze without its except clause: the request's failure propagates.
AnalyzeRaises(response) ==
    IF response.failed
    THEN [raised |-> TRUE, translation |-> "", grammar_patterns |-> << >>]
    ELSE [raised |-> FALSE, translation |-> response.translation,
          grammar_patterns |-> response.grammar_patterns]

\* LLMAgent.analyze: the try block, and the except that returns the
\* sentinel analysis.
Analyze(response) ==
    IF response.failed
    THEN [raised |-> FALSE, translation |-> "Analysis unavailable",
          grammar_patterns |-> << >>]
    ELSE [raised |-> FALSE, translation |-> response.translation,
          grammar_patterns |-> response.grammar_patterns]

\* _llm_node.
LlmNode ==
    /\ pc = "llm"
    /\ trail' = Append(trail, "llm")
    /\ UNCHANGED http
    /\ \E response \in Responses :
         LET analysis == Analyze(response)
         IN  /\ faults' = IF response.failed THEN faults \cup {"analyze"} ELSE faults
             /\ IF analysis.raised
                THEN /\ ProcessExcept("analyze raised")
                     /\ UNCHANGED <<state, heap, kksRaised, call>>
                ELSE /\ state' = [state EXCEPT
                                    !.translation = analysis.translation,
                                    !.grammar_patterns = analysis.grammar_patterns,
                                    !.sentence_breakdown = << >>]
                     /\ pc' = "visualize"
                     /\ UNCHANGED <<result, heap, kksRaised, call>>

\* The elements the token loop leaves without a match: the direct reading is
\* looked up, and can raise, for these only.
Unmatched(elements, tokens) ==
    {i \in 1..Len(elements) :
        HasKanji(elements[i].text) /\ FindBestMatch(tokens, elements[i].text) = 0}

\* cv2.imwrite of the .png, then of the .jpg: the name saved, << >> when
\* neither is written.
SaveImage(outcome) ==
    IF outcome = "png" THEN <<"annotated_furigana.png">>
    ELSE IF outcome = "jpg" THEN <<"annotated_furigana.jpg">>
    ELSE << >>

\* _visualize_node.  The environment: kksFail (elements whose direct reading
\* raises), wholeFail / drawFail (annotate), outcome (imwrite); the
\* parameters say which of these failures the environment may produce.
VisualizeStep(kksMay, wholeFails, drawMay, outcomes) ==
    /\ pc = "visualize"
    /\ trail' = Append(trail, "visualize")
    /\ UNCHANGED http
    /\ IF IsNone(state.image_array)
       THEN /\ ProcessExcept("Image array is None, cannot create visualizations")
            /\ faults' = faults \cup {"image_array"}
            /\ UNCHANGED <<state, heap, kksRaised, call>>
       ELSE \E kksFail \in (IF kksMay THEN SUBSET Unmatched(state.ocr_elements, state.tokens)
                             ELSE {{}}),
               wholeFail \in wholeFails, outcome \in outcomes :
            \E rec \in {Reconcile(state.ocr_elements, state.tokens,
                                  state.vocabulary, kksFail)} :
            \E drawFail \in (IF drawMay /\ ~wholeFail
                             THEN SUBSET (1..Len(rec.annotations)) ELSE {{}}) :
            \E r \in {Annotate(heap, state.image_array, rec.annotations,
                               wholeFail, drawFail)} :
              LET annotations == rec.annotations
                  output_filename == SaveImage(outcome)
              IN  /\ faults' = IF output_filename = << >>
                               THEN faults \cup {"imwrite"} ELSE faults
                  /\ heap' = IF r.raised
                             THEN Append(heap, heap[state.image_array])
                             ELSE r.heap
                  /\ kksRaised' = rec.raised
                  /\ call' = [image |-> state.image_array,
                              annotations |-> annotations,
                              wholeFail |-> wholeFail,
                              drawFail |-> drawFail,
                              raised |-> r.raised,
                              ret |-> Len(heap) + 1]
                  /\ IF output_filename = << >>
                     THEN /\ ProcessExcept("Failed to save image in any format")
                          /\ UNCHANGED state
                     ELSE /\ state' = [state EXCEPT
                              !.annotations = annotations,
                              !.annotated_image_readings_path = output_filename[1],
                              !.annotated_image_meanings_path = ""]
                          /\ pc' = "format"
                          /\ UNCHANGED result

VisualizeNode == VisualizeStep(TRUE, BOOLEAN, TRUE, {"png", "jpg", "none"})

\* process, lines 269-286: the success report.
ProcessReturn ==
    /\ pc = "format"
    /\ state' = [state EXCEPT !.processing_time = "elapsed"]
    /\ result' = FormatOutput(state')
    /\ pc' = "done"
    /\ UNCHANGED <<trail, heap, kksRaised, call, faults, http>>

Next == OcrNode \/ NlpNode \/ LlmNode \/ VisualizeNode \/ ProcessReturn

Spec == Init /\ [][Next]_vars

----------------------------------------------------------------------------
(* The reconciler on its own: the record as the ocr, nlp and llm nodes leave
   it, for every element list extract_text can return from MaxFrags rows and
   every token list of MaxTokens words, then the visualize node with an
   annotate and an imwrite that do not fail. *)

\* The rows of one text line that pass the confidence filter.
ReadRows == {r \in RawRows : r.conf > 20 /\ r.text # << >> /\ r.top = 50}

ElementLists == {ExtractElements(rows) : rows \in SeqsUpTo(ReadRows, MaxFrags)}

TokenLists ==
    UNION {{Tokenize(words, lookupOk, FALSE).tokens :
               lookupOk \in [1..Len(words) -> BOOLEAN]} :
           words \in SeqsUpTo(Texts, MaxTokens)}

AfterLlm(elements, tokens) ==
    LET analysis == Analyze(CHOOSE r \in Responses : r.failed)
    IN  [InitialState EXCEPT
            !.image_array = 1,
            !.ocr_elements = elements,
            !.ocr_lines = GroupIntoLines(elements),
            !.full_text = FullText(elements),
            !.tokens = tokens,
            !.vocabulary = BuildVocabulary(tokens),
            !.translation = analysis.translation,
            !.grammar_patterns = analysis.grammar_patterns]

InitReconciler ==
    /\ pc = "visualize"
    /\ state \in {AfterLlm(elements, tokens) :
                    elements \in ElementLists, tokens \in TokenLists}
    /\ result = << >>
    /\ trail = <<"ocr", "nlp", "llm">>
    /\ heap = ExtractText(<< >>, FALSE).image
    /\ kksRaised = {}
    /\ http = NoResponse
    /\ call = NoCall
    /\ faults = {"analyze"}

ReconcilerCall == VisualizeStep(TRUE, {FALSE}, FALSE, {"png"})

SpecReconcile == InitReconciler /\ [][ReconcilerCall]_vars

----------------------------------------------------------------------------
(* Properties of the reconciliation loop, checked under SpecReconcile. *)

Elements == state.ocr_elements

Tokens == state.tokens

Annotations == state.annotations

Reconciled == pc = "format"

AnnotationKey(a) == <<a.x, a.y, a.kanji>>

\* The annotations recorded for the key of element i.
AnnotationsOf(i) ==
    {j \in 1..Len(Annotations) : AnnotationKey(Annotations[j]) = PositionKey(Elements[i])}

\* C1: the annotation list never holds two annotations with the same
\* (x, y, sourceText) triple, whatever fragments repeat in the element list.
C1_UniqueKeys ==
    \A i, j \in 1..Len(Annotations) :
        i # j => AnnotationKey(Annotations[i]) # AnnotationKey(Annotations[j])

\* A later fragment repeats an annotated key and has been dropped.
C1_Witness ==
    /\ Reconciled
    /\ \E i, j \in 1..Len(Elements) :
         /\ i < j
         /\ PositionKey(Elements[i]) = PositionKey(Elements[j])
         /\ Cardinality(AnnotationsOf(j)) = 1

\* C2: an ideograph-bearing fragment with an exact-match token gets that
\* token's hiragana reading, whatever other tokens come before or after it.
C2_ExactMatchReading ==
    Reconciled =>
        \A i \in 1..Len(Elements), k \in 1..Len(Tokens) :
            (HasKanji(Elements[i].text) /\ Tokens[k].text = Elements[i].text) =>
                /\ AnnotationsOf(i) # {}
                /\ \A j \in AnnotationsOf(i) :
                     Annotations[j].hiragana = Tokens[k].hiragana

\* The exact-match token comes after a token that contains the fragment.
C2_Witness ==
    /\ Reconciled
    /\ \E i \in 1..Len(Elements) :
         /\ Len(Tokens) = 2
         /\ Tokens[2].text = Elements[i].text
         /\ Tokens[1].text # Elements[i].text
         /\ Tokens[1].is_kanji
         /\ IsSubstring(Elements[i].text, Tokens[1].text)
         /\ \E j \in AnnotationsOf(i) : Annotations[j].hiragana = Tokens[2].hiragana

\* C3: a fragment without an ideograph produces no annotation.
C3_NoKanjiNoAnnotation ==
    Reconciled =>
        /\ \A j \in 1..Len(Annotations) : HasKanji(Annotations[j].kanji)
        /\ \A i \in 1..Len(Elements) :
             ~HasKanji(Elements[i].text) => AnnotationsOf(i) = {}

\* A kana-only fragment met a token list holding its text and an ideograph
\* token that contains it.
C3_Witness ==
    /\ Reconciled
    /\ \E i \in 1..Len(Elements) :
         /\ ~HasKanji(Elements[i].text)
         /\ \E k \in 1..Len(Tokens) : Tokens[k].text = Elements[i].text
         /\ \E k \in 1..Len(Tokens) :
              Tokens[k].is_kanji /\ IsSubstring(Elements[i].text, Tokens[k].text)
         /\ AnnotationsOf(i) = {}

\* No token is equal to, contained in or containing the text.
NoTokenRelated(text) ==
    \A k \in 1..Len(Tokens) :
        /\ Tokens[k].text # text
        /\ ~IsSubstring(Tokens[k].text, text)
        /\ ~IsSubstring(text, Tokens[k].text)

\* C4: an ideograph-bearing fragment that no token matches, and whose direct
\* reading lookup did not raise, has exactly one annotation: its reading is
\* the direct reading of the fragment text and its gloss is empty.
C4_FallbackReading ==
    Reconciled =>
        \A i \in 1..Len(Elements) :
            (/\ HasKanji(Elements[i].text)
             /\ NoTokenRelated(Elements[i].text)
             /\ i \notin kksRaised) =>
                /\ Cardinality(AnnotationsOf(i)) = 1
                /\ \A j \in AnnotationsOf(i) :
                     /\ Annotations[j].hiragana = KksHira(Elements[i].text)
                     /\ Annotations[j].meaning = ""

\* An unmatched fragment got its direct reading while tokens were present.
C4_Witness ==
    /\ Reconciled
    /\ Len(Tokens) = 2
    /\ \E i \in 1..Len(Elements) :
         /\ HasKanji(Elements[i].text)
         /\ Len(Elements[i].text) = 2
         /\ NoTokenRelated(Elements[i].text)
         /\ i \notin kksRaised
         /\ Cardinality(AnnotationsOf(i)) = 1

\* The gloss the claim names for a matched token.
ClaimedGloss(token) ==
    IF token.text \in DOMAIN state.vocabulary THEN state.vocabulary[token.text]
    ELSE IF token.meaning # "" THEN token.meaning
    ELSE ""

\* C5: when a token is matched to a fragment, the one annotation produced
\* carries the fragment's text and box, the matched token's hiragana, and
\* the gloss of the vocabulary map for the token's text, else the token's
\* own gloss, else the empty string.
C5_MatchedAnnotation ==
    Reconciled =>
        \A i \in 1..Len(Elements) :
            LET m == FindBestMatch(Tokens, Elements[i].text)
            IN  (HasKanji(Elements[i].text) /\ m # 0) =>
                    /\ Cardinality(AnnotationsOf(i)) = 1
                    /\ \A j \in AnnotationsOf(i) :
                         Annotations[j] =
                             [kanji |-> Elements[i].text,
                              hiragana |-> Tokens[m].hiragana,
                              meaning |-> ClaimedGloss(Tokens[m]),
                              x |-> Elements[i].x, y |-> Elements[i].y,
                              w |-> Elements[i].w, h |-> Elements[i].h]

\* The matched token has no gloss of its own and the vocabulary map has one.
C5_Witness ==
    /\ Reconciled
    /\ \E i \in 1..Len(Elements) :
         LET m == FindBestMatch(Tokens, Elements[i].text)
         IN  /\ HasKanji(Elements[i].text)
             /\ m # 0
             /\ Tokens[m].meaning = ""
             /\ Tokens[m].text \in DOMAIN state.vocabulary
             /\ \E j \in AnnotationsOf(i) : Annotations[j].meaning # ""

\* The element list without the elements at the indices in skip.
RECURSIVE DropIndices(_, _, _)
DropIndices(q, i, skip) ==
    IF i > Len(q) THEN << >>
    ELSE (IF i \in skip THEN << >> ELSE <<q[i]>>) \o DropIndices(q, i + 1, skip)

\* C14: when the direct reading raises for unmatched fragments, the node
\* goes on to save the image (the reconciliation does not fail) and the
\* annotation list is the one the loop makes of the other fragments alone:
\* nothing for the failing fragments, every other annotation kept, in order.
C14_LookupFailureSwallowed ==
    pc # "visualize" =>
        /\ pc = "format"
        /\ result = << >>
        /\ Annotations =
             Reconcile(DropIndices(Elements, 1, kksRaised), Tokens,
                       state.vocabulary, {}).annotations
        /\ Len(Annotations) <= Len(Elements) - Cardinality(kksRaised)

\* C14 witness: the direct reading raised for the second of three fragments;
\* the first and the third are annotated.
C14_Witness ==
    /\ Reconciled
    /\ Len(Elements) = 3
    /\ kksRaised = {2}
    /\ Len(Annotations) = 2
    /\ AnnotationKey(Annotations[1]) = PositionKey(Elements[1])
    /\ AnnotationKey(Annotations[2]) = PositionKey(Elements[3])

\* The token texts that strictly contain the text, and those strictly
\* contained in it (tokens with an ideograph only: the loop reads no other).
Containing(text) ==
    {k \in 1..Len(Tokens) :
        /\ Tokens[k].is_kanji
        /\ Tokens[k].text # text
        /\ IsSubstring(text, Tokens[k].text)}

ContainedIn(text) ==
    {k \in 1..Len(Tokens) :
        /\ Tokens[k].is_kanji
        /\ Tokens[k].text # text
        /\ IsSubstring(Tokens[k].text, text)}

NoExactMatch(text) == \A k \in 1..Len(Tokens) : Tokens[k].text # text

\* C16: a fragment with no exact-match token and a token that strictly
\* contains it is annotated with the reading of a token that contains it,
\* never with that of a token that is only a part of it, in whatever order
\* the tokens come.
C16_ContainingBeforeContained ==
    Reconciled =>
        \A i \in 1..Len(Elements) :
            (/\ HasKanji(Elements[i].text)
             /\ NoExactMatch(Elements[i].text)
             /\ Containing(Elements[i].text) # {}) =>
                /\ FindBestMatch(Tokens, Elements[i].text) \in Containing(Elements[i].text)
                /\ AnnotationsOf(i) # {}
                /\ \A j \in AnnotationsOf(i) :
                     /\ \E k \in Containing(Elements[i].text) :
                          Annotations[j].hiragana = Tokens[k].hiragana
                     /\ \A k \in ContainedIn(Elements[i].text) :
                          Annotations[j].hiragana # Tokens[k].hiragana

\* C16 witness: the token that contains the fragment comes first, a token
\* that is a part of the fragment second, and the fragment carries the
\* first token's reading.
C16_Witness ==
    /\ Reconciled
    /\ Len(Tokens) = 2
    /\ \E i \in 1..Len(Elements) :
         /\ NoExactMatch(Elements[i].text)
         /\ Containing(Elements[i].text) = {1}
         /\ ContainedIn(Elements[i].text) = {2}
         /\ \E j \in AnnotationsOf(i) : Annotations[j].hiragana = Tokens[1].hiragana

\* The first of the longest tokens among those at the indices in S.
LongestFirst(S) ==
    CHOOSE k \in S :
        /\ \A m \in S : Len(Tokens[m].text) <= Len(Tokens[k].text)
        /\ \A m \in S : Len(Tokens[m].text) = Len(Tokens[k].text) => k <= m

\* The first token among those at the indices in S.
First(S) == CHOOSE k \in S : \A m \in S : k <= m

\* C17 as claimed: a fragment with no exact-match token and tokens that
\* strictly contain it carries the reading of the longest of these tokens,
\* of the first of them among equally long ones.
C17_LongestContaining ==
    Reconciled =>
        \A i \in 1..Len(Elements) :
            (/\ HasKanji(Elements[i].text)
             /\ NoExactMatch(Elements[i].text)
             /\ Containing(Elements[i].text) # {}) =>
                \A j \in AnnotationsOf(i) :
                    Annotations[j].hiragana =
                        Tokens[LongestFirst(Containing(Elements[i].text))].hiragana

\* C17 as amended: such a fragment carries the reading of the first token
\* that strictly contains it, whatever the lengths of the others.
C17_FirstContaining ==
    Reconciled =>
        \A i \in 1..Len(Elements) :
            (/\ HasKanji(Elements[i].text)
             /\ NoExactMatch(Elements[i].text)
             /\ Containing(Elements[i].text) # {}) =>
                /\ AnnotationsOf(i) # {}
                /\ \A j \in AnnotationsOf(i) :
                     Annotations[j].hiragana =
                         Tokens[First(Containing(Elements[i].text))].hiragana

\* C17 witness: two tokens contain the fragment, the shorter one first, and
\* the fragment carries the shorter one's reading.
C17_Witness ==
    /\ Reconciled
    /\ Len(Tokens) = 2
    /\ \E i \in 1..Len(Elements) :
         /\ Containing(Elements[i].text) = {1, 2}
         /\ Len(Tokens[1].text) < Len(Tokens[2].text)
         /\ Tokens[1].hiragana # Tokens[2].hiragana
         /\ \E j \in AnnotationsOf(i) : Annotations[j].hiragana = Tokens[1].hiragana

\* C18 as claimed: a fragment whose only related tokens are parts of it
\* carries the reading of the first of them; a later part does not displace
\* it, even a longer one.
C18_FirstContained ==
    Reconciled =>
        \A i \in 1..Len(Elements) :
            (/\ HasKanji(Elements[i].text)
             /\ NoExactMatch(Elements[i].text)
             /\ Containing(Elements[i].text) = {}
             /\ ContainedIn(Elements[i].text) # {}) =>
                \A j \in AnnotationsOf(i) :
                    Annotations[j].hiragana =
                        Tokens[First(ContainedIn(Elements[i].text))].hiragana

\* C18 as amended: the parts are scored on their own length; such a
\* fragment carries the reading of the longest token that is a part of it,
\* of the first among equally long ones, so a later part displaces an
\* earlier one exactly when it is longer.
C18_LongestContained ==
    Reconciled =>
        \A i \in 1..Len(Elements) :
            (/\ HasKanji(Elements[i].text)
             /\ NoExactMatch(Elements[i].text)
             /\ Containing(Elements[i].text) = {}
             /\ ContainedIn(Elements[i].text) # {}) =>
                /\ AnnotationsOf(i) # {}
                /\ \A j \in AnnotationsOf(i) :
                     Annotations[j].hiragana =
                         Tokens[LongestFirst(ContainedIn(Elements[i].text))].hiragana

\* C18 witness: two tokens are parts of the fragment, the longer one second,
\* and the fragment carries the second one's reading.
C18_Witness ==
    /\ Reconciled
    /\ Len(Tokens) = 2
    /\ \E i \in 1..Len(Elements) :
         /\ ContainedIn(Elements[i].text) = {1, 2}
         /\ Len(Tokens[1].text) < Len(Tokens[2].text)
         /\ Tokens[1].hiragana # Tokens[2].hiragana
         /\ \E j \in AnnotationsOf(i) : Annotations[j].hiragana = Tokens[2].hiragana

\* The tokens equal to the text, parts of it or containing it, flagged or not.
Related(text) ==
    {k \in 1..Len(Tokens) :
        \/ IsSubstring(Tokens[k].text, text)
        \/ IsSubstring(text, Tokens[k].text)}

\* C21: a token not flagged is_kanji is never the match of a fragment; an
\* ideograph-bearing fragment whose related tokens are all of this kind
\* (kana that is a part of it), and whose direct reading did not raise, has
\* exactly one annotation, with the direct reading of its own text and an
\* empty gloss.
C21_OnlyKanjiTokensMatch ==
    Reconciled =>
        \A i \in 1..Len(Elements) :
            (/\ HasKanji(Elements[i].text)
             /\ Related(Elements[i].text) # {}
             /\ \A k \in Related(Elements[i].text) : ~Tokens[k].is_kanji
             /\ i \notin kksRaised) =>
                /\ Cardinality(AnnotationsOf(i)) = 1
                /\ \A j \in AnnotationsOf(i) :
                     /\ Annotations[j].hiragana = KksHira(Elements[i].text)
                     /\ Annotations[j].meaning = ""
                     /\ \A k \in Related(Elements[i].text) :
                          Annotations[j].hiragana # Tokens[k].hiragana

\* C21 witness: a kana token is a part of the fragment, the other token has
\* an ideograph but nothing to do with the fragment, and the fragment
\* carries its direct reading.
C21_Witness ==
    /\ Reconciled
    /\ Len(Tokens) = 2
    /\ \E i \in 1..Len(Elements) :
         /\ HasKanji(Elements[i].text)
         /\ Related(Elements[i].text) = {1}
         /\ ~Tokens[1].is_kanji
         /\ Tokens[2].is_kanji
         /\ i \notin kksRaised
         /\ \E j \in AnnotationsOf(i) :
              /\ Annotations[j].hiragana = KksHira(Elements[i].text)
              /\ Annotations[j].meaning = ""

----------------------------------------------------------------------------
(* annotate on its own: an image buffer (or None) and a list of MaxAnns
   annotations as the reconciliation loop builds them: ideograph text, its
   reading, keys all different. *)

AnnotationValues ==
    {[kanji |-> t, hiragana |-> KksHira(t), meaning |-> JamLookup(t),
      x |-> 10, y |-> y, w |-> w, h |-> 20] :
        t \in {<<26085>>, <<26085, 26412>>}, y \in {10, 30, 52, 69}, w \in {0, 24}}

AnnotationLists ==
    {q \in SeqsUpTo(AnnotationValues, MaxAnns) :
        \A i, j \in 1..Len(q) :
            i # j => <<q[i].x, q[i].y, q[i].kanji>> # <<q[j].x, q[j].y, q[j].kanji>>}

\* The heaps a caller can hand over: a 3-channel array, a grey one, an RGBA
\* one; the image is buffer 1 or None.
ImageHeaps ==
    {<<[shape |-> sh, ink |-> << >>]>> :
        sh \in {<<120, 200, 3>>, <<120, 200>>, <<120, 200, 4>>}}

InitLayout ==
    /\ pc = "annotate"
    /\ state = InitialState
    /\ result = << >>
    /\ trail = << >>
    /\ heap \in ImageHeaps
    /\ kksRaised = {}
    /\ http = NoResponse
    /\ faults = {}
    /\ \E image \in 0..1, annotations \in AnnotationLists :
         call = [NoCall EXCEPT !.image = image, !.annotations = annotations]

\* viz_agent.annotate(image, annotations)
AnnotateCall ==
    /\ pc = "annotate"
    /\ \E wholeFail \in BOOLEAN :
       \E drawFail \in (IF wholeFail THEN {{}} ELSE SUBSET (1..Len(call.annotations))) :
       \E r \in {Annotate(heap, call.image, call.annotations, wholeFail, drawFail)} :
         /\ heap' = r.heap
         /\ call' = [call EXCEPT !.wholeFail = wholeFail /\ ~r.raised,
                                 !.drawFail = IF r.raised THEN {} ELSE drawFail,
                                 !.raised = r.raised,
                                 !.ret = r.ret]
         /\ pc' = "annotated"
    /\ UNCHANGED <<state, result, trail, kksRaised, faults, http>>

SpecLayout == InitLayout /\ [][AnnotateCall]_vars

----------------------------------------------------------------------------
(* Properties of the layout engine, checked under SpecLayout. *)

\* The reading rectangles drawn on the returned buffer.
Drawn ==
    IF pc = "annotated" /\ ~call.raised
    THEN LET ink == heap[call.ret].ink
         IN  {ink[i] : i \in {k \in 1..Len(ink) : ink[k].kind = "furigana"}}
    ELSE {}

\* Two rectangles of ImageDraw.rectangle (both corners included) meet.
Intersect(p, q) ==
    /\ p.x0 <= q.x1 /\ q.x0 <= p.x1
    /\ p.y0 <= q.y1 /\ q.y0 <= p.y1

ReadingHeight(p) == p.y1 - p.y0 - 4

\* The reading sits where _draw_furigana first puts it, above the box.
NotClamped(p) == p.of.y - ReadingHeight(p) - 3 >= 20

\* C6, as claimed: the reading rectangles of two distinct drawn annotations
\* never intersect.
C6_NoOverlap ==
    \A p, q \in Drawn : p # q => ~Intersect(p, q)

\* C6, amended: annotate places every reading from its own box alone; two
\* reading rectangles are apart when the upper one is not clamped to the top
\* margin and the lower box starts more than the lower reading's height
\* plus 4 below the upper box.
C6_ApartWhenSeparated ==
    \A p, q \in Drawn :
        (NotClamped(p) /\ q.of.y - p.of.y > ReadingHeight(q) + 4) => ~Intersect(p, q)

\* Two readings on separated lines were drawn, and they are apart.
C6_Witness ==
    \E p, q \in Drawn :
        /\ NotClamped(p)
        /\ q.of.y - p.of.y > ReadingHeight(q) + 4
        /\ ~Intersect(p, q)

\* C7: for a valid 3-channel image and any annotation list, annotate returns
\* a new buffer of the input's shape and leaves the input buffer as it was,
\* on the normal path and when the drawing fails as a whole.
C7_CopyOnAnnotate ==
    [][(pc = "annotate" /\ ~InvalidImage(heap, call.image)) =>
          /\ ~call'.raised
          /\ call'.ret \in 1..Len(heap')
          /\ call'.ret # call.image
          /\ heap'[call'.ret].shape = heap[call.image].shape
          /\ heap'[call.image] = heap[call.image]]_vars

\* The drawing failed as a whole for a list of annotations: the buffer
\* returned is a second buffer, equal to the input.
C7_Witness ==
    /\ pc = "annotated"
    /\ call.wholeFail
    /\ call.annotations # << >>
    /\ call.ret # call.image
    /\ heap[call.ret] = heap[call.image]

\* The annotations annotate draws: those whose drawing does not raise and
\* whose box has a positive width and height.
KeptIndices ==
    {i \in 1..Len(call.annotations) :
        /\ i \notin call.drawFail
        /\ call.annotations[i].w > 0
        /\ call.annotations[i].h > 0}

KthKept(k) ==
    CHOOSE i \in KeptIndices : Cardinality({j \in KeptIndices : j <= i}) = k

\* C13: when the drawing does not fail as a whole, annotate leaves on the
\* returned buffer one reading for every annotation that neither raises
\* nor has a box of non-positive width or height, in the order of the list,
\* nothing for the others, and the title banner after them.
C13_SkipOnlyTheFailing ==
    (pc = "annotated" /\ ~call.raised /\ ~call.wholeFail) =>
        LET ink == heap[call.ret].ink
            n == Cardinality(KeptIndices)
        IN  /\ Len(ink) = n + 1
            /\ ink[n + 1].kind = "title"
            /\ \A k \in 1..n :
                  /\ ink[k].kind = "furigana"
                  /\ ink[k].of = call.annotations[KthKept(k)]
                  /\ ink[k].text = call.annotations[KthKept(k)].hiragana

\* C13 witness: of three annotations the first raised while it was drawn,
\* the second has a box of width 0, and the third was drawn, then the title.
C13_Witness ==
    /\ pc = "annotated"
    /\ ~call.raised
    /\ Len(call.annotations) = 3
    /\ call.drawFail = {1}
    /\ call.annotations[2].w = 0
    /\ KeptIndices = {3}
    /\ Len(heap[call.ret].ink) = 2
    /\ heap[call.ret].ink[1].of = call.annotations[3]
    /\ heap[call.ret].ink[2].kind = "title"

\* The image handed to annotate is an array, but not an (H, W, 3) one.
NotThreeChannels ==
    /\ call.image # 0
    /\ LET shape == heap[call.image].shape
       IN  Len(shape) # 3 \/ shape[3] # 3

\* C15: annotate raises for an image that is not a 3-dimensional array of
\* exactly 3 channels, and has then drawn nothing and copied nothing: no
\* buffer is returned, the heap holds the caller's buffer alone, without
\* ink.
C15_RejectsBeforeDrawing ==
    (pc = "annotated" /\ NotThreeChannels) =>
        /\ call.raised
        /\ call.ret = 0
        /\ Len(heap) = 1
        /\ heap[call.image].ink = << >>

\* C15 witness: annotate was called with a grey (H, W) array and
\* annotations to draw, and raised.
C15_Witness ==
    /\ pc = "annotated"
    /\ call.image = 1
    /\ heap = <<[shape |-> <<120, 200>>, ink |-> << >>]>>
    /\ Len(call.annotations) = 2
    /\ call.raised

\* The distinct y positions of the annotations handed to annotate.
YPositions == {call.annotations[i].y : i \in 1..Len(call.annotations)}

\* The sum of the gaps between consecutive sorted positions.
GapSum ==
    LET top == CHOOSE y \in YPositions : \A z \in YPositions : y <= z
        bottom == CHOOSE y \in YPositions : \A z \in YPositions : z <= y
    IN  bottom - top

\* The tier the exact average gap GapSum / (n - 1) selects, compared
\* without dividing.
TierOfAverage ==
    LET gaps == Cardinality(YPositions) - 1
    IN  IF gaps < 1 THEN 12
        ELSE IF GapSum < 30 * gaps THEN 8
        ELSE IF GapSum < 50 * gaps THEN 10
        ELSE 12

\* C19: every reading annotate draws has the font size of the tier of the
\* exact average gap between the sorted distinct y positions: 8 below 30,
\* 10 from 30 to below 50, 12 from 50 on and for fewer than two positions.
C19_FontTier ==
    (pc = "annotated" /\ ~call.raised /\ ~call.wholeFail) =>
        \A p \in Drawn : p.size = TierOfAverage

\* C19 witness: the positions 10, 30 and 69 have the average gap 29.5, which
\* int() makes 29, and the readings are drawn in the smallest size.
C19_Witness ==
    /\ pc = "annotated"
    /\ YPositions = {10, 30, 69}
    /\ Drawn # {}
    /\ \A p \in Drawn : p.size = 8

----------------------------------------------------------------------------
(* Properties of process and the four nodes, checked under Spec. *)

Stages == <<"ocr", "nlp", "llm", "visualize">>

\* The node in which a collaborator's failure is raised (0: in none, the
\* failure of analyze is caught inside analyze).
StageOf(fault) ==
    IF fault = "extract_text" THEN 1
    ELSE IF fault = "tokenize" THEN 2
    ELSE IF fault \in {"image_array", "imwrite"} THEN 4
    ELSE 0

Raised == {f \in faults : StageOf(f) > 0}

SuccessFields ==
    {"processing_time", "extracted_text", "vocabulary", "analysis",
     "annotated_image", "stats"}

\* C8: when a node raises, no later node is entered and process returns the
\* failure report: success false, an error message, a timestamp, and none
\* of the fields of the success report.
C8_RaiseAborts ==
    \A f \in Raised :
        /\ pc = "done"
        /\ trail = SubSeq(Stages, 1, StageOf(f))
        /\ DOMAIN result = {"success", "error", "timestamp"}
        /\ DOMAIN result \cap SuccessFields = {}
        /\ result.success = FALSE
        /\ result.error # ""

\* C8 witness: tokenize raised in the nlp node; llm and visualize never ran.
C8_Witness ==
    /\ pc = "done"
    /\ "tokenize" \in faults
    /\ trail = <<"ocr", "nlp">>
    /\ result = FailureResult("tokenize raised")
    /\ state.ocr_elements # << >>

\* C9: when the analyzer's request fails, the llm node still hands on to
\* the visualize node with the sentinel analysis, and when nothing else
\* fails process returns success with translation "Analysis unavailable"
\* and no grammar patterns, the annotations made as usual.
C9_AnalyzerFailureDegrades ==
    "analyze" \in faults =>
        /\ pc \in {"visualize", "format", "done"}
        /\ state.translation = "Analysis unavailable"
        /\ state.grammar_patterns = << >>
        /\ pc = "done" => trail = Stages
        /\ (pc = "done" /\ faults = {"analyze"}) =>
              /\ result.success = TRUE
              /\ result.analysis.translation = "Analysis unavailable"
              /\ result.analysis.grammar_patterns = << >>
              /\ result.stats.total_annotations = Len(call.annotations)
              /\ result.annotated_image # ""

\* C9 witness: the analyzer failed, everything else succeeded, and the
\* request returned success with an annotation drawn.
C9_Witness ==
    /\ pc = "done"
    /\ faults = {"analyze"}
    /\ result.success = TRUE
    /\ result.analysis.translation = "Analysis unavailable"
    /\ Len(state.annotations) > 0
    /\ ~call.raised

\* C10 as claimed: a request in which extract_text or tokenize failed (and
\* nothing else but possibly the analyzer) still goes through all four
\* nodes and is not aborted.
C10_NeverAborted ==
    (/\ pc = "done"
     /\ faults \cap {"extract_text", "tokenize"} # {}
     /\ faults \subseteq {"extract_text", "tokenize", "analyze"})
    => (trail = Stages /\ result.success = TRUE)

\* C10 as amended: a failure of extract_text or of tokenize is not caught in
\* its node; the request ends there with the failure report and the record
\* holds nothing of that stage or of a later one.
C10_ExtractionFailureAborts ==
    /\ "extract_text" \in faults =>
          /\ pc = "done"
          /\ trail = <<"ocr">>
          /\ result = FailureResult("extract_text raised")
          /\ state = InitialState
    /\ "tokenize" \in faults =>
          /\ pc = "done"
          /\ trail = <<"ocr", "nlp">>
          /\ result = FailureResult("tokenize raised")
          /\ state.tokens = << >>
          /\ state.translation = ""
          /\ state.annotations = << >>

\* C10 witness: extract_text raised and the request ended in the ocr node.
C10_Witness ==
    /\ pc = "done"
    /\ faults = {"extract_text"}
    /\ trail = <<"ocr">>
    /\ result.success = FALSE

----------------------------------------------------------------------------
(* The visualize node and process's return on their own, for an ocr agent
   that hands over any image: none, a 3-channel array, a grey one, an RGBA
   one.  The record is as the ocr, nlp and llm nodes leave it for one row
   and one word; annotate, the direct reading and imwrite may fail. *)

InitVisualize ==
    /\ pc = "visualize"
    /\ heap \in ImageHeaps
    /\ state \in {[AfterLlm(elements, tokens) EXCEPT !.image_array = image] :
                    elements \in {ExtractElements(rows) : rows \in SeqsUpTo(ReadRows, MaxRows)},
                    tokens \in {Tokenize(words, [i \in 1..Len(words) |-> TRUE], FALSE).tokens :
                                    words \in SeqsUpTo(Texts, MaxWords)},
                    image \in 0..1}
    /\ result = << >>
    /\ trail = <<"ocr", "nlp", "llm">>
    /\ kksRaised = {}
    /\ http = NoResponse
    /\ call = NoCall
    /\ faults = {"analyze"}

NextVisualize == VisualizeNode \/ ProcessReturn

SpecVisualize == InitVisualize /\ [][NextVisualize]_vars

\* The visualize node has run.
Visualized == pc \in {"format", "done"} /\ Len(trail) = 4

\* The record holds no image.
AbsentImage == state.image_array = 0

\* The record holds an array that is not (H, W, 3).
WrongShape ==
    /\ state.image_array # 0
    /\ LET shape == heap[state.image_array].shape
       IN  Len(shape) # 3 \/ shape[3] # 3

\* C11 as claimed: a request whose image buffer is absent or is not an
\* (H, W, 3) array at the visualize node ends with the failure report.
C11_InvalidImageAborts ==
    (pc = "done" /\ (AbsentImage \/ WrongShape)) =>
        /\ result.success = FALSE
        /\ DOMAIN result = {"success", "error", "timestamp"}

\* C11 as amended: an absent buffer aborts the request in the visualize node
\* before anything is annotated; a buffer of another shape makes annotate
\* raise, the node takes a copy of the buffer in its place and saves it, and
\* the request succeeds when the save does.
C11_AbsentImageAborts ==
    /\ (Visualized /\ AbsentImage) =>
          /\ pc = "done"
          /\ result = FailureResult("Image array is None, cannot create visualizations")
          /\ call = NoCall
          /\ state.annotations = << >>
    /\ (Visualized /\ WrongShape) =>
          /\ call.raised
          /\ heap[call.ret] = heap[state.image_array]
          /\ "imwrite" \notin faults => pc = "format" \/ result.success = TRUE
          /\ "imwrite" \in faults =>
                result = FailureResult("Failed to save image in any format")

\* C11 witness: the visualize node found no image and the request ended
\* with the failure report.
C11_Witness ==
    /\ pc = "done"
    /\ Len(trail) = 4
    /\ AbsentImage
    /\ state.ocr_elements # << >>
    /\ result.success = FALSE

----------------------------------------------------------------------------
(* main.py: the /process endpoint around workflow.process. *)

\* str.lower() on the extensions uploaded.
Lower(ext) ==
    IF ext = "PNG" THEN "png"
    ELSE IF ext = "Jpg" THEN "jpg"
    ELSE IF ext = "TXT" THEN "txt"
    ELSE ext

AcceptedExtensions == {"png", "jpg", "jpeg", "bmp", "tiff", "tif"}

Uploads ==
    {[stem |-> "page", ext |-> e] : e \in {"png", "PNG", "Jpg", "tif", "txt", "TXT", "pdf"}}

\* The payload of the except clause of process_image.
ServerError(message) ==
    [success |-> FALSE, error |-> message, timestamp |-> "now"]

\* process_image up to the call of workflow.process: the extension test,
\* then the temporary file (writing it can raise).
Upload ==
    /\ pc = "upload"
    /\ \E file \in Uploads, tmpFails \in BOOLEAN :
         IF Lower(file.ext) \notin AcceptedExtensions
         THEN /\ http' = [upload |-> file, status |-> 400,
                          content |-> [error |-> "Only image files supported (PNG, JPG, JPEG, BMP, TIFF)"]]
              /\ pc' = "answered"
         ELSE IF tmpFails
         THEN /\ http' = [upload |-> file, status |-> 500,
                          content |-> ServerError("Processing failed: temporary file")]
              /\ pc' = "answered"
         ELSE /\ http' = [http EXCEPT !.upload = file]
              /\ pc' = "ocr"
    /\ UNCHANGED <<state, result, trail, heap, kksRaised, call, faults>>

\* process_image after workflow.process has returned: the temporary file is
\* unlinked (which can raise) and the result is returned as it is.
Respond ==
    /\ pc = "done"
    /\ \E unlinkFails \in BOOLEAN :
         http' = IF unlinkFails
                 THEN [http EXCEPT !.status = 500,
                                   !.content = ServerError("Processing failed: unlink")]
                 ELSE [http EXCEPT !.status = 200, !.content = result]
    /\ pc' = "answered"
    /\ UNCHANGED <<state, result, trail, heap, kksRaised, call, faults>>

InitEndpoint ==
    /\ pc = "upload"
    /\ state = InitialState
    /\ result = << >>
    /\ trail = << >>
    /\ heap = << >>
    /\ kksRaised = {}
    /\ http = NoResponse
    /\ call = NoCall
    /\ faults = {}

NextEndpoint ==
    \/ Upload
    \/ OcrNode
    \/ NlpNode
    \/ LlmNode
    \/ VisualizeNode
    \/ ProcessReturn
    \/ Respond

SpecEndpoint == InitEndpoint /\ [][NextEndpoint]_vars

\* C12: an upload with an accepted extension whose processing failed is
\* answered with status 500 and a payload holding the error and a
\* timestamp, never with a status that is not an error.
C12_FailureAnswered500 ==
    (/\ pc = "answered"
     /\ Lower(http.upload.ext) \in AcceptedExtensions
     /\ http.content.success = FALSE)
    => (/\ http.status = 500
        /\ {"error", "timestamp"} \subseteq DOMAIN http.content)

----------------------------------------------------------------------------
(* The fields of the record each node writes, checked under Spec. *)

OcrFields == {"image_array", "ocr_elements", "ocr_lines", "full_text"}

NlpFields == {"tokens", "vocabulary"}

LlmFields == {"translation", "grammar_patterns", "sentence_breakdown"}

\* The fields in F are after the step what they were before it.
Kept(F) == \A f \in F : state'[f] = state[f]

====
